---- MODULE Spec2Model ----
(***************************************************************************)
(* A model of app.py, the "Weekly New Restaurant Night" picker: the pure   *)
(* helpers (get_next_monday_date, choose_place, format_history_row,        *)
(* fetch_history_place_ids) as operators, and the "Roll the Dice" handler  *)
(* as a state machine over the history sheet and the calendar.             *)
(*                                                                         *)
(* A Python dict is a function whose domain is the set of keys present;    *)
(* dict.get(k, d) is Get(dict, k, d).  None is the empty tuple <<>> and a  *)
(* returned dict p is <<p>>.  A rating is kept in tenths (4.2 is 42).      *)
(***************************************************************************)
EXTENDS Integers, Sequences, FiniteSets, TLC

VARIABLES
    \* the "Roll the Dice" handler
    pc, ui, today, log, calendar,
    cuisine_choice, monday_date, history_ids, places, chosen_place, history_row,
    \* what is recorded about the runs: their number, the exception the
    \* current run raised, the sheet and the calendar when it started, and the
    \* sheet before the first run
    runs, raised, start_log, start_calendar, initial_log,
    \* one call of choose_place
    cp_places, cp_history, cp_result, cp_done,
    \* one call of get_next_monday_date
    nm_today, nm_result, nm_done,
    \* one call of format_history_row
    fr_place, fr_cuisine, fr_date, fr_now, fr_result, fr_done

handler_vars ==
    <<pc, ui, today, log, calendar, cuisine_choice, monday_date, history_ids,
      places, chosen_place, history_row, runs, raised, start_log,
      start_calendar, initial_log>>

cp_vars == <<cp_places, cp_history, cp_result, cp_done>>

nm_vars == <<nm_today, nm_result, nm_done>>

fr_vars == <<fr_place, fr_cuisine, fr_date, fr_now, fr_result, fr_done>>

vars == <<handler_vars, cp_vars, nm_vars, fr_vars>>

---------------------------------------------------------------------------
(* Bounds of the model. *)

\* Button-triggered runs in one behaviour.
MaxRuns == 2

\* Places in one search response of the handler.
MaxResults == 2

\* Days the clock may advance during a behaviour of the handler.
MaxTicks == 1

\* Places in the list given to one call of choose_place.
MaxPlaces == 2

\* Consecutive days on which get_next_monday_date is called.
MaxDays == 120

\* The proleptic Gregorian ordinal of the first day modelled (2024-01-01).
FirstDay == 738886

---------------------------------------------------------------------------
(* Constants of the program. *)

CUISINES ==
    << "Mexican", "Seafood", "Japanese", "Korean", "Chinese", "Vietnamese",
       "Thai", "Filipino", "Italian", "Greek", "Turkish", "Iranian",
       "Lebanese", "Indian", "Ethiopian", "Peruvian", "Hawaiian", "Barbeque",
       "Spanish", "Brazilian" >>

\* MIN_RATING = 4.2, in tenths.
MIN_RATING == 42

MIN_REVIEWS == 200

\* The header row of the History sheet, columns A to J.
HEADER ==
    << "Timestamp", "Event Date", "Cuisine", "Restaurant", "Google Place ID",
       "Rating", "Reviews", "Price Level", "Address", "Maps Link" >>

---------------------------------------------------------------------------
(* Python values. *)

None == <<>>

Some(v) == <<v>>

Has(d, k) == k \in DOMAIN d

Get(d, k, default) == IF Has(d, k) THEN d[k] ELSE default

\* A dict from optional values: <<>> leaves the key out, <<v>> sets it to v.
MkDict(opt) ==
    LET keys == {k \in DOMAIN opt : opt[k] # <<>>}
    IN  [k \in keys |-> opt[k][1]]

Opt(S) == {<<>>} \cup {<<v>> : v \in S}

SeqsUpTo(S, n) == UNION {[1..k -> S] : k \in 0..n}

\* str() of a float kept in tenths: str(4.2) = "4.2", str(5.0) = "5.0".
StrFloat(t) == ToString(t \div 10) \o "." \o ToString(t % 10)

StrInt(n) == ToString(n)

Pad2(n) == IF n < 10 THEN "0" \o ToString(n) ELSE ToString(n)

Pad4(n) ==
    IF n < 10 THEN "000" \o ToString(n)
    ELSE IF n < 100 THEN "00" \o ToString(n)
    ELSE IF n < 1000 THEN "0" \o ToString(n)
    ELSE ToString(n)

---------------------------------------------------------------------------
(* datetime.date: a date is its proleptic Gregorian ordinal. *)

\* date.weekday(): Monday is 0, Sunday is 6.
Weekday(d) == (d + 6) % 7

DaysInMonth(leap) ==
    << 31, IF leap THEN 29 ELSE 28, 31, 30, 31, 30, 31, 31, 30, 31, 30, 31 >>

RECURSIVE DaysBeforeMonth(_, _)
DaysBeforeMonth(m, leap) ==
    IF m = 1 THEN 0 ELSE DaysBeforeMonth(m - 1, leap) + DaysInMonth(leap)[m - 1]

\* The (year, month, day) of an ordinal.
Ord2Ymd(ordinal) ==
    LET n0   == ordinal - 1
        n400 == n0 \div 146097
        r400 == n0 % 146097
        n100 == r400 \div 36524
        r100 == r400 % 36524
        n4   == r100 \div 1461
        r4   == r100 % 1461
        n1   == r4 \div 365
        n    == r4 % 365
        year == n400 * 400 + 1 + n100 * 100 + n4 * 4 + n1
        leap == n1 = 3 /\ (n4 # 24 \/ n100 = 3)
        month == CHOOSE m \in 1..12 :
                    /\ DaysBeforeMonth(m, leap) <= n
                    /\ n < DaysBeforeMonth(m, leap) + DaysInMonth(leap)[m]
    IN  IF n1 = 4 \/ n100 = 4
        THEN <<year - 1, 12, 31>>
        ELSE <<year, month, n - DaysBeforeMonth(month, leap) + 1>>

\* date.isoformat(): YYYY-MM-DD.
IsoFormat(d) ==
    LET ymd == Ord2Ymd(d)
    IN  Pad4(ymd[1]) \o "-" \o Pad2(ymd[2]) \o "-" \o Pad2(ymd[3])

\* datetime.now(TIMEZONE).isoformat(): a datetime is <<date, time of day>>.
IsoFormatNow(now) == IsoFormat(now[1]) \o "T" \o now[2]

\* get_next_monday_date without "if days_ahead == 0: days_ahead = 7".
get_next_monday_date_same_day(t) == t + ((0 - Weekday(t)) % 7)

\* get_next_monday_date(), from today's date in TIMEZONE.

get_next_monday_date(t) ==
    LET days_ahead == (0 - Weekday(t)) % 7
    IN  t + (IF days_ahead = 0 THEN 7 ELSE days_ahead)

---------------------------------------------------------------------------
(* choose_place *)

\* The test without "place_id in history_ids".
IsEligibleNoHistory(place, ids) ==
    LET rating  == Get(place, "rating", 0)
        reviews == Get(place, "userRatingCount", 0)
    IN  /\ ~(~Has(place, "id") \/ place["id"] = "")
        /\ ~(rating < MIN_RATING \/ reviews < MIN_REVIEWS)

\* The test with <= for <.
IsEligibleStrict(place, ids) ==
    LET rating  == Get(place, "rating", 0)
        reviews == Get(place, "userRatingCount", 0)
    IN  /\ ~(~Has(place, "id") \/ place["id"] = "" \/ place["id"] \in ids)
        /\ ~(rating <= MIN_RATING \/ reviews <= MIN_REVIEWS)

\* The test of one place in the loop of choose_place: TRUE when it is kept.
IsEligible(place, ids) ==
    LET rating  == Get(place, "rating", 0)
        reviews == Get(place, "userRatingCount", 0)
    IN  /\ ~(~Has(place, "id") \/ place["id"] = "" \/ place["id"] \in ids)
        /\ ~(rating < MIN_RATING \/ reviews < MIN_REVIEWS)

\* The list eligible built by the loop, in the order of the input.
RECURSIVE Eligible(_, _)
Eligible(ps, ids) ==
    IF ps = <<>> THEN <<>>
    ELSE IF IsEligible(Head(ps), ids)
         THEN <<Head(ps)>> \o Eligible(Tail(ps), ids)
         ELSE Eligible(Tail(ps), ids)

\* choose_place with eligible[0] for random.choice(eligible).
ChoosePlaceFirst(ps, ids) ==
    LET eligible == Eligible(ps, ids)
    IN  IF eligible = <<>> THEN {None} ELSE {Some(eligible[1])}

\* What choose_place may return: None, or whatever random.choice may draw.
choose_place(ps, ids) ==
    LET eligible == Eligible(ps, ids)
    IN  IF eligible = <<>> THEN {None}
        ELSE {Some(eligible[i]) : i \in 1..Len(eligible)}

---------------------------------------------------------------------------
(* get_place_name, format_history_row *)

get_place_name(place) ==
    LET displayName == Get(place, "displayName", [k \in {} |-> ""])
    IN  Get(displayName, "text", "Unknown Restaurant")

\* str(place.get("rating", "")), str(place.get("userRatingCount", "")) and
\* str(place.get("priceLevel", "")): the price level is a string already.
StrRating(place) ==
    IF Has(place, "rating") THEN StrFloat(place["rating"]) ELSE ""

StrReviews(place) ==
    IF Has(place, "userRatingCount") THEN StrInt(place["userRatingCount"]) ELSE ""

StrPrice(place) == Get(place, "priceLevel", "")

\* format_history_row with the name and the id in each other's place.
format_history_row_swapped(place, cuisine, event_date, now) ==
    << IsoFormatNow(now),
       IsoFormat(event_date),
       cuisine,
       Get(place, "id", ""),
       get_place_name(place),
       StrRating(place),
       StrReviews(place),
       StrPrice(place),
       Get(place, "formattedAddress", ""),
       Get(place, "googleMapsUri", "") >>

format_history_row(place, cuisine, event_date, now) ==
    << IsoFormatNow(now),
       IsoFormat(event_date),
       cuisine,
       get_place_name(place),
       Get(place, "id", ""),
       StrRating(place),
       StrReviews(place),
       StrPrice(place),
       Get(place, "formattedAddress", ""),
       Get(place, "googleMapsUri", "") >>

---------------------------------------------------------------------------
(* fetch_history_place_ids: rows is the response's "values" *)

\* df.columns holds name: some cell of the first row is name.
InColumns(header, name) == \E j \in 1..Len(header) : header[j] = name

ColumnOf(header, name) ==
    CHOOSE j \in 1..Len(header) :
        /\ header[j] = name
        /\ \A i \in 1..(j - 1) : header[i] # name

\* A row shorter than the header is padded with None, which dropna() drops.
fetch_history_place_ids(rows) ==
    IF rows = <<>> THEN {}
    ELSE LET header == rows[1]
             data   == Tail(rows)
         IN  IF ~InColumns(header, "Google Place ID") THEN {}
             ELSE LET j == ColumnOf(header, "Google Place ID")
                  IN  {data[i][j] : i \in {r \in 1..Len(data) : j <= Len(data[r])}}

---------------------------------------------------------------------------
(* The state of each part before it is used. *)

HandlerIdle ==
    /\ pc = "idle"
    /\ ui = <<>>
    /\ log = <<>>
    /\ calendar = <<>>
    /\ today = FirstDay
    /\ cuisine_choice = ""
    /\ monday_date = 0
    /\ history_ids = {}
    /\ places = <<>>
    /\ chosen_place = None
    /\ history_row = <<>>
    /\ runs = 0
    /\ raised = None
    /\ start_log = <<>>
    /\ start_calendar = <<>>
    /\ initial_log = <<>>

ChooseIdle ==
    /\ cp_places = <<>>
    /\ cp_history = {}
    /\ cp_result = None
    /\ cp_done = FALSE

MondayIdle ==
    /\ nm_today = FirstDay
    /\ nm_result = 0
    /\ nm_done = FALSE

FormatIdle ==
    /\ fr_place = <<>>
    /\ fr_cuisine = ""
    /\ fr_date = FirstDay
    /\ fr_now = <<FirstDay, "">>
    /\ fr_result = <<>>
    /\ fr_done = FALSE

---------------------------------------------------------------------------
(* choose_place called once on any list of places and any exclusion set. *)

PlaceIds == {"p1", "p2"}

\* Places as the search returns them, with any of id, rating and
\* userRatingCount missing, an empty id, and values at and around the
\* thresholds.
ChoosePlaces ==
    { MkDict([id |-> i, rating |-> r, userRatingCount |-> n]) :
        i \in Opt(PlaceIds \cup {""}),
        r \in Opt({MIN_RATING - 1, MIN_RATING}),
        n \in Opt({MIN_REVIEWS - 1, MIN_REVIEWS}) }

InitChoose ==
    /\ cp_places \in SeqsUpTo(ChoosePlaces, MaxPlaces)
    /\ cp_history \in SUBSET PlaceIds
    /\ cp_result = None
    /\ cp_done = FALSE
    /\ HandlerIdle /\ MondayIdle /\ FormatIdle

CallChoosePlace ==
    /\ ~cp_done
    /\ cp_result' \in choose_place(cp_places, cp_history)
    /\ cp_done' = TRUE
    /\ UNCHANGED <<cp_places, cp_history, handler_vars, nm_vars, fr_vars>>

NextChoose == CallChoosePlace

SpecChoose == InitChoose /\ [][NextChoose]_vars

---------------------------------------------------------------------------
(* get_next_monday_date called once on any day. *)

InitMonday ==
    /\ nm_today \in FirstDay..(FirstDay + MaxDays)
    /\ nm_result = 0
    /\ nm_done = FALSE
    /\ HandlerIdle /\ ChooseIdle /\ FormatIdle

CallNextMonday ==
    /\ ~nm_done
    /\ nm_result' = get_next_monday_date(nm_today)
    /\ nm_done' = TRUE
    /\ UNCHANGED <<nm_today, handler_vars, cp_vars, fr_vars>>

NextMonday == CallNextMonday

SpecMonday == InitMonday /\ [][NextMonday]_vars

---------------------------------------------------------------------------
(* format_history_row called once on any place, cuisine and event date. *)

\* Places with any attribute missing, and a displayName without its text.
FormatPlaces ==
    { MkDict([id |-> i, displayName |-> d, rating |-> r, userRatingCount |-> n,
              priceLevel |-> p, formattedAddress |-> a, googleMapsUri |-> u]) :
        i \in Opt({"p1"}),
        d \in Opt({[k \in {} |-> ""], [text |-> "Taco Spot"]}),
        r \in Opt({45}),
        n \in Opt({250}),
        p \in Opt({"PRICE_LEVEL_MODERATE"}),
        a \in Opt({"1 Main St, San Diego, CA 92117"}),
        u \in Opt({"https://maps.google.com/?cid=1"}) }

TimesOfDay == {"09:15:00-08:00", "23:59:59-08:00"}

InitFormat ==
    /\ fr_place \in FormatPlaces
    /\ fr_cuisine \in {CUISINES[1], CUISINES[Len(CUISINES)]}
    /\ fr_date \in {FirstDay + 7, FirstDay + 63}
    /\ fr_now \in {FirstDay} \X TimesOfDay
    /\ fr_result = <<>>
    /\ fr_done = FALSE
    /\ HandlerIdle /\ ChooseIdle /\ MondayIdle

CallFormatHistoryRow ==
    /\ ~fr_done
    /\ fr_result' = format_history_row(fr_place, fr_cuisine, fr_date, fr_now)
    /\ fr_done' = TRUE
    /\ UNCHANGED <<fr_place, fr_cuisine, fr_date, fr_now,
                   handler_vars, cp_vars, nm_vars>>

NextFormat == CallFormatHistoryRow

SpecFormat == InitFormat /\ [][NextFormat]_vars

---------------------------------------------------------------------------
(* create_calendar_event: the event inserted for a place and a date. *)

RatingOrNA(place) ==
    IF Has(place, "rating") THEN StrFloat(place["rating"]) ELSE "N/A"

ReviewsOrNA(place) ==
    IF Has(place, "userRatingCount") THEN StrInt(place["userRatingCount"]) ELSE "N/A"

CalendarEvent(place, event_date) ==
    [ summary     |-> "Dinner @ " \o get_place_name(place),
      location    |-> Get(place, "formattedAddress", ""),
      description |-> get_place_name(place) \o " | Rating: " \o RatingOrNA(place)
                      \o " | Reviews: " \o ReviewsOrNA(place)
                      \o " | Link: " \o Get(place, "googleMapsUri", ""),
      start       |-> IsoFormat(event_date) \o "T18:00:00",
      end         |-> IsoFormat(event_date) \o "T20:00:00" ]

---------------------------------------------------------------------------
(* The "Roll the Dice" handler.                                            *)
(*                                                                         *)
(* pc is the next statement of the try block; ui is what the page shows,   *)
(* in order; log is the rows of History!A:J and calendar the events        *)
(* inserted.  A call to an external service either returns or raises.      *)

\* The classes of what the try block can raise: requests.HTTPError and any
\* other subclass of Exception, and st.stop()'s StopException, which derives
\* from BaseException only.
HTTPError == "requests.HTTPError"

OtherException == "Exception"

StopException == "streamlit.StopException"

IsException(cls) == cls \in {HTTPError, OtherException}

\* The except clauses with "except BaseException" for "except Exception".
ExceptClausesCatchAll(cls) ==
    IF cls = HTTPError THEN <<"error: Places API error">>
    ELSE <<"error: Something went wrong">>

\* The except clauses: what they add to the page for an exception raised in
\* the try block.  What neither clause catches leaves the script, and the
\* run ends with the page as it is.
ExceptClauses(cls) ==
    IF cls = HTTPError THEN <<"error: Places API error">>
    ELSE IF IsException(cls) THEN <<"error: Something went wrong">>
    ELSE <<>>

\* The statement at pc raises cls: the run ends in the except clauses.
Raise(step, cls) ==
    /\ raised' = Some(<<step, cls>>)
    /\ ui' = ui \o ExceptClauses(cls)
    /\ pc' = "done"

\* The places a search may return in the handler.
Catalog ==
    { [ id |-> "p1", displayName |-> [text |-> "Taco Spot"], rating |-> MIN_RATING,
        userRatingCount |-> MIN_REVIEWS, priceLevel |-> "PRICE_LEVEL_MODERATE",
        formattedAddress |-> "1 Main St, San Diego, CA 92117",
        googleMapsUri |-> "https://maps.google.com/?cid=1" ],
      [ id |-> "p2", displayName |-> [text |-> "Pho House"], rating |-> 47,
        userRatingCount |-> 950 ],
      [ id |-> "p3", rating |-> MIN_RATING - 1, userRatingCount |-> 5000 ] }

HandlerTimes == {"18:30:00-08:00"}

\* The entries of CUISINES that random.choice draws in the handler: the
\* first and the last.
HandlerCuisines == {CUISINES[1], CUISINES[Len(CUISINES)]}

\* The sheet before the first run: empty, the header alone, or the header
\* and the row of an earlier selection.
InitialLogs ==
    { <<>>,
      <<HEADER>>,
      <<HEADER,
        format_history_row(CHOOSE p \in Catalog : p["id"] = "p1", CUISINES[1],
                           FirstDay, <<FirstDay - 7, "18:30:00-08:00">>)>> }

Init ==
    /\ pc = "idle"
    /\ ui = <<>>
    /\ today = FirstDay
    /\ log \in InitialLogs
    /\ initial_log = log
    /\ calendar = <<>>
    /\ cuisine_choice = ""
    /\ monday_date = 0
    /\ history_ids = {}
    /\ places = <<>>
    /\ chosen_place = None
    /\ history_row = <<>>
    /\ runs = 0
    /\ raised = None
    /\ start_log = log
    /\ start_calendar = <<>>
    /\ ChooseIdle /\ MondayIdle /\ FormatIdle

pure_vars == <<cp_vars, nm_vars, fr_vars>>

\* Midnight passes in TIMEZONE.
Tick ==
    /\ today < FirstDay + MaxTicks
    /\ today' = today + 1
    /\ UNCHANGED <<pc, ui, log, calendar, cuisine_choice, monday_date,
                   history_ids, places, chosen_place, history_row, runs, raised,
                   start_log, start_calendar, initial_log, pure_vars>>

\* The button is pressed: the script reruns on an empty page and the try
\* block draws the cuisine and computes the event date.
RollTheDice ==
    /\ pc \in {"idle", "done"}
    /\ runs < MaxRuns
    /\ runs' = runs + 1
    /\ ui' = <<>>
    /\ raised' = None
    /\ start_log' = log
    /\ start_calendar' = calendar
    /\ cuisine_choice' \in HandlerCuisines
    /\ monday_date' = get_next_monday_date(today)
    /\ history_ids' = {}
    /\ places' = <<>>
    /\ chosen_place' = None
    /\ history_row' = <<>>
    /\ pc' = "build"
    /\ UNCHANGED <<today, log, calendar, initial_log, pure_vars>>

\* sheets_service, calendar_service = build_google_clients()
BuildGoogleClients ==
    /\ pc = "build"
    /\ \/ /\ pc' = "fetch"
          /\ UNCHANGED <<ui, raised>>
       \/ Raise("build_google_clients", OtherException)
    /\ UNCHANGED <<today, log, calendar, cuisine_choice, monday_date,
                   history_ids, places, chosen_place, history_row, runs,
                   start_log, start_calendar, initial_log, pure_vars>>

\* The fetch that writes the header row into a sheet it finds empty.
FetchHistoryWritesHeader ==
    /\ pc = "fetch"
    /\ \/ /\ history_ids' = fetch_history_place_ids(log)
          /\ log' = IF log = <<>> THEN <<HEADER>> ELSE log
          /\ pc' = "search"
          /\ UNCHANGED <<ui, raised>>
       \/ /\ Raise("fetch_history_place_ids", OtherException)
          /\ UNCHANGED <<history_ids, log>>
    /\ UNCHANGED <<today, calendar, cuisine_choice, monday_date, places,
                   chosen_place, history_row, runs, start_log, start_calendar,
                   initial_log, pure_vars>>

\* history_ids = fetch_history_place_ids(sheets_service)
FetchHistory ==
    /\ pc = "fetch"
    /\ \/ /\ history_ids' = fetch_history_place_ids(log)
          /\ pc' = "search"
          /\ UNCHANGED <<ui, raised>>
       \/ /\ Raise("fetch_history_place_ids", OtherException)
          /\ UNCHANGED history_ids
    /\ UNCHANGED <<today, log, calendar, cuisine_choice, monday_date, places,
                   chosen_place, history_row, runs, start_log, start_calendar,
                   initial_log, pure_vars>>

\* places = search_places(cuisine_choice): raise_for_status() raises
\* requests.HTTPError; a timeout, a refused connection or a body that is
\* not JSON raises another exception.
SearchPlaces ==
    /\ pc = "search"
    /\ \/ /\ places' \in SeqsUpTo(Catalog, MaxResults)
          /\ pc' = "choose"
          /\ UNCHANGED <<ui, raised>>
       \/ /\ Raise("search_places", HTTPError)
          /\ UNCHANGED places
       \/ /\ Raise("search_places", OtherException)
          /\ UNCHANGED places
    /\ UNCHANGED <<today, log, calendar, cuisine_choice, monday_date,
                   history_ids, chosen_place, history_row, runs, start_log,
                   start_calendar, initial_log, pure_vars>>

\* chosen_place = choose_place(places, history_ids); without a place the
\* warning is shown and st.stop() raises StopException; with one,
\* history_row = format_history_row(chosen_place, cuisine_choice, monday_date)
ChoosePlace ==
    /\ pc = "choose"
    /\ chosen_place' \in choose_place(places, history_ids)
    /\ \/ /\ chosen_place' = None
          /\ raised' = Some(<<"st.stop", StopException>>)
          /\ ui' = ui \o <<"warning: No eligible restaurants found">>
                      \o ExceptClauses(StopException)
          /\ pc' = "done"
          /\ UNCHANGED history_row
       \/ /\ chosen_place' # None
          /\ \E tod \in HandlerTimes :
                history_row' = format_history_row(chosen_place'[1], cuisine_choice,
                                                  monday_date, <<today, tod>>)
          /\ pc' = "append"
          /\ UNCHANGED <<ui, raised>>
    /\ UNCHANGED <<today, log, calendar, cuisine_choice, monday_date,
                   history_ids, places, runs, start_log, start_calendar,
                   initial_log, pure_vars>>

\* append_history_row(sheets_service, history_row)
AppendHistoryRow ==
    /\ pc = "append"
    /\ \/ /\ log' = Append(log, history_row)
          /\ pc' = "calendar"
          /\ UNCHANGED <<ui, raised>>
       \/ /\ Raise("append_history_row", OtherException)
          /\ UNCHANGED log
    /\ UNCHANGED <<today, calendar, cuisine_choice, monday_date, history_ids,
                   places, chosen_place, history_row, runs, start_log,
                   start_calendar, initial_log, pure_vars>>

\* The event created in the place of the append, not after it.
CreateCalendarEventFirst ==
    /\ pc = "append"
    /\ \/ /\ calendar' = Append(calendar, CalendarEvent(chosen_place[1], monday_date))
          /\ pc' = "render"
          /\ UNCHANGED <<ui, raised>>
       \/ /\ Raise("create_calendar_event", OtherException)
          /\ UNCHANGED calendar
    /\ UNCHANGED <<today, log, cuisine_choice, monday_date, history_ids,
                   places, chosen_place, history_row, runs, start_log,
                   start_calendar, initial_log, pure_vars>>

\* create_calendar_event(calendar_service, chosen_place, monday_date)
CreateCalendarEvent ==
    /\ pc = "calendar"
    /\ \/ /\ calendar' = Append(calendar, CalendarEvent(chosen_place[1], monday_date))
          /\ pc' = "render"
          /\ UNCHANGED <<ui, raised>>
       \/ /\ Raise("create_calendar_event", OtherException)
          /\ UNCHANGED calendar
    /\ UNCHANGED <<today, log, cuisine_choice, monday_date, history_ids,
                   places, chosen_place, history_row, runs, start_log,
                   start_calendar, initial_log, pure_vars>>

\* The place, the link when there is one, and the two success messages.
RenderSuccess ==
    /\ pc = "render"
    /\ ui' = ui \o <<"subheader", "write">>
                \o (IF Has(chosen_place[1], "googleMapsUri")
                       /\ chosen_place[1]["googleMapsUri"] # ""
                    THEN <<"markdown">> ELSE <<>>)
                \o <<"success: History Updated", "success: Calendar Invite Sent">>
    /\ pc' = "done"
    /\ UNCHANGED <<today, log, calendar, cuisine_choice, monday_date,
                   history_ids, places, chosen_place, history_row, runs, raised,
                   start_log, start_calendar, initial_log, pure_vars>>

Next ==
    \/ Tick
    \/ RollTheDice
    \/ BuildGoogleClients
    \/ FetchHistory
    \/ SearchPlaces
    \/ ChoosePlace
    \/ AppendHistoryRow
    \/ CreateCalendarEvent
    \/ RenderSuccess

Spec == Init /\ [][Next]_vars

---------------------------------------------------------------------------
(* What the properties speak of. *)

Range(f) == {f[i] : i \in DOMAIN f}

\* 2024-01-01, ordinal 738886, was a Monday.
IsMonday(d) == (d - 738886) % 7 = 0

\* The eligibility filter as the design states it: the place has an
\* identifier, the identifier is not excluded, and rating and review count
\* (0 when missing) reach the thresholds.
HasIdentifier(p) == Has(p, "id") /\ p["id"] # ""

RatingOf(p) == IF Has(p, "rating") THEN p["rating"] ELSE 0

ReviewsOf(p) == IF Has(p, "userRatingCount") THEN p["userRatingCount"] ELSE 0

PassesFilter(p, excluded) ==
    /\ HasIdentifier(p)
    /\ p["id"] \notin excluded
    /\ RatingOf(p) >= 42
    /\ ReviewsOf(p) >= 200

Survivors(ps, excluded) == {i \in 1..Len(ps) : PassesFilter(ps[i], excluded)}

\* The rows of the sheet that record a selection: all but the header row.
Selections(rows) == SelectSeq(rows, LAMBDA r : r # HEADER)

\* The place identifiers of the selections recorded in the sheet.
SelectionIds(rows) == {Selections(rows)[i][5] : i \in 1..Len(Selections(rows))}

\* The fifth cell of every row of the sheet.
LogPlaceIds(rows) == {rows[i][5] : i \in 1..Len(rows)}

\* What the page shows when the run has ended.
ShowsSuccess ==
    /\ "success: History Updated" \in Range(ui)
    /\ "success: Calendar Invite Sent" \in Range(ui)

ShowsWarning == "warning: No eligible restaurants found" \in Range(ui)

ShowsApiError == "error: Places API error" \in Range(ui)

ShowsGenericError == "error: Something went wrong" \in Range(ui)

Outcomes ==
    {o \in {"success", "warning", "api_error", "error"} :
        \/ o = "success" /\ ShowsSuccess
        \/ o = "warning" /\ ShowsWarning
        \/ o = "api_error" /\ ShowsApiError
        \/ o = "error" /\ ShowsGenericError}

\* The statement that raised in the current run, "" when none did.
RaisedIn == IF raised = None THEN "" ELSE raised[1][1]

\* Rows appended and events created by the current run.
RunRows == Len(log) - Len(start_log)

RunEvents == Len(calendar) - Len(start_calendar)

---------------------------------------------------------------------------
(* Properties of the handler. *)

\* C1: a place already present in history is never re-selected: the place a
\* run chooses has an identifier that occurs in no row of the history log
\* the run read, and no place identifier is recorded in the log twice.
C1_NeverReselected ==
    /\ pc = "append" => chosen_place[1]["id"] \notin LogPlaceIds(log)
    /\ \A i, j \in 1..Len(Selections(log)) :
          i # j => Selections(log)[i][5] # Selections(log)[j][5]

\* C10: the history set a run computes is exactly the set of the place
\* identifiers of all rows appended to the log so far, whatever the log
\* started as, and is empty only when the log holds no selection.
C10_HistorySetIsAllSelections ==
    pc \in {"search", "choose", "append"} =>
        /\ history_ids = SelectionIds(log)
        /\ history_ids = {} => Selections(log) = <<>>

\* C7: a run ends in exactly one of success, the warning, the Places API
\* error and the generic error; no eligible place gives the warning and no
\* error, an HTTP failure of the search the API error, a failure of any
\* other step the generic error; nothing is shown before the run ends.
C7_ExactlyOneOutcome ==
    /\ pc \in {"build", "fetch", "search", "choose", "append", "calendar", "render"}
          => Outcomes = {}
    /\ pc = "done" =>
          /\ Cardinality(Outcomes) = 1
          /\ raised = None => Outcomes = {"success"}
          /\ RaisedIn = "st.stop" =>
                /\ Survivors(places, history_ids) = {}
                /\ ui = <<"warning: No eligible restaurants found">>
          /\ raised = Some(<<"search_places", HTTPError>>) => Outcomes = {"api_error"}
          /\ raised # None /\ RaisedIn # "st.stop" /\ raised[1][2] # HTTPError
                => Outcomes = {"error"}

C7_WarningRun ==
    /\ pc = "done"
    /\ RaisedIn = "st.stop"
    /\ places # <<>>
    /\ Outcomes = {"warning"}

\* C8: in a run the row is appended at most once and the event is created
\* at most once, the event only after the row of the same run, success is
\* shown only after both, and over all runs no more events are created than
\* rows are appended.
C8_PipelineOrder ==
    /\ RunRows \in {0, 1}
    /\ RunEvents \in {0, 1}
    /\ RunEvents <= RunRows
    /\ pc \in {"build", "fetch", "search", "choose", "append"}
          => RunRows = 0 /\ RunEvents = 0 /\ ~ShowsSuccess
    /\ pc = "calendar" => RunRows = 1 /\ RunEvents = 0 /\ ~ShowsSuccess
    /\ RunEvents = 1 =>
          /\ log[Len(log)] = history_row
          /\ calendar[Len(calendar)] = CalendarEvent(chosen_place[1], monday_date)
    /\ ShowsSuccess => RunRows = 1 /\ RunEvents = 1
    /\ pc = "done" /\ raised = None => ShowsSuccess
    /\ Len(calendar) <= Len(log) - Len(initial_log)

C8_SecondSuccess ==
    /\ pc = "done"
    /\ runs = 2
    /\ ShowsSuccess
    /\ Len(calendar) = 2
    /\ Len(log) = Len(initial_log) + 2

\* C9: a run that selects no place (the warning, or a failure building the
\* clients, fetching the history or searching) leaves the history log and
\* the calendar as they were when it started.
C9_NoSelectionNoEffect ==
    /\ pc \in {"build", "fetch", "search", "choose", "append"}
          => log = start_log /\ calendar = start_calendar
    /\ pc = "done" /\ RaisedIn \in {"st.stop", "build_google_clients",
                                     "fetch_history_place_ids", "search_places"}
          => log = start_log /\ calendar = start_calendar

C9_WarningAfterSelection ==
    /\ pc = "done"
    /\ runs = 2
    /\ RaisedIn = "st.stop"
    /\ Len(log) = Len(initial_log) + 1
    /\ Len(calendar) = 1

---------------------------------------------------------------------------
(* Properties of choose_place. *)

\* C2: choose_place never returns a place whose identifier is in the
\* exclusion set, nor a place whose identifier is missing or empty.
C2_NeverExcludedNorWithoutId ==
    cp_done /\ cp_result # None =>
        /\ HasIdentifier(cp_result[1])
        /\ cp_result[1]["id"] \notin cp_history

C2_ExcludedPlaceSkipped ==
    /\ cp_done
    /\ cp_result # None
    /\ \E i \in 1..Len(cp_places) :
          /\ HasIdentifier(cp_places[i])
          /\ cp_places[i]["id"] \in cp_history
          /\ RatingOf(cp_places[i]) >= 42
          /\ ReviewsOf(cp_places[i]) >= 200

\* C3: choose_place never returns a place with rating below 4.2 or review
\* count below 200, a missing value counting as 0, and a place with rating
\* exactly 4.2 and exactly 200 reviews and an identifier that is not
\* excluded stays eligible: it may be returned, and None is not.
C3_ThresholdsInclusive ==
    /\ cp_done /\ cp_result # None =>
          /\ RatingOf(cp_result[1]) >= 42
          /\ ReviewsOf(cp_result[1]) >= 200
    /\ \A i \in 1..Len(cp_places) :
          ( /\ RatingOf(cp_places[i]) = 42
            /\ ReviewsOf(cp_places[i]) = 200
            /\ HasIdentifier(cp_places[i])
            /\ cp_places[i]["id"] \notin cp_history )
          => /\ Some(cp_places[i]) \in choose_place(cp_places, cp_history)
             /\ cp_done => cp_result # None

C3_ReturnedAtThreshold ==
    /\ cp_done
    /\ cp_result # None
    /\ RatingOf(cp_result[1]) = 42
    /\ ReviewsOf(cp_result[1]) = 200
    /\ \E i \in 1..Len(cp_places) : ~Has(cp_places[i], "rating")

\* C4: choose_place returns None exactly when no place of the list passes
\* the filter, the empty list included, and otherwise an element of the list
\* that passes it; every survivor may be the one returned.
C4_NoneIffNoSurvivor ==
    /\ cp_done =>
          /\ cp_result = None <=> Survivors(cp_places, cp_history) = {}
          /\ cp_result # None =>
                \E i \in Survivors(cp_places, cp_history) : cp_places[i] = cp_result[1]
    /\ \A i \in Survivors(cp_places, cp_history) :
          Some(cp_places[i]) \in choose_place(cp_places, cp_history)

C4_SecondSurvivorReturned ==
    /\ cp_done
    /\ Survivors(cp_places, cp_history) = {1, 2}
    /\ cp_places[1] # cp_places[2]
    /\ cp_result = Some(cp_places[2])

---------------------------------------------------------------------------
(* Property of get_next_monday_date. *)

\* C5: the result is a Monday strictly after today: 7 days later when today
\* is a Monday, otherwise the nearest future Monday, 1 to 6 days later.
C5_NextMondayStrictlyAfter ==
    nm_done =>
        /\ IsMonday(nm_result)
        /\ nm_result > nm_today
        /\ nm_result - nm_today <= 7
        /\ IsMonday(nm_today) => nm_result = nm_today + 7
        /\ ~IsMonday(nm_today) =>
              /\ nm_result - nm_today \in 1..6
              /\ \A d \in (nm_today + 1)..(nm_result - 1) : ~IsMonday(d)

C5_CalledOnMonday ==
    /\ nm_done
    /\ IsMonday(nm_today)
    /\ nm_result = nm_today + 7

---------------------------------------------------------------------------
(* Property of format_history_row. *)

\* C6: the row has exactly 10 fields in the order timestamp, event date,
\* cuisine, place name, place identifier, rating, review count, price tier,
\* address, map link, a missing attribute giving its default; the fifth
\* field is the one the history reader reads back as "Google Place ID".
C6_TenFieldsInOrder ==
    fr_done =>
        /\ Len(fr_result) = 10
        /\ Len(fr_result) = Len(HEADER)
        /\ fr_result[1] = IsoFormatNow(fr_now)
        /\ fr_result[2] = IsoFormat(fr_date)
        /\ fr_result[3] = fr_cuisine
        /\ fr_result[4] = (IF Has(fr_place, "displayName")
                              /\ Has(fr_place["displayName"], "text")
                           THEN fr_place["displayName"]["text"]
                           ELSE "Unknown Restaurant")
        /\ fr_result[5] = (IF Has(fr_place, "id") THEN fr_place["id"] ELSE "")
        /\ fr_result[6] = (IF Has(fr_place, "rating")
                           THEN StrFloat(fr_place["rating"]) ELSE "")
        /\ fr_result[7] = (IF Has(fr_place, "userRatingCount")
                           THEN StrInt(fr_place["userRatingCount"]) ELSE "")
        /\ fr_result[8] = (IF Has(fr_place, "priceLevel")
                           THEN fr_place["priceLevel"] ELSE "")
        /\ fr_result[9] = (IF Has(fr_place, "formattedAddress")
                           THEN fr_place["formattedAddress"] ELSE "")
        /\ fr_result[10] = (IF Has(fr_place, "googleMapsUri")
                            THEN fr_place["googleMapsUri"] ELSE "")
        /\ fetch_history_place_ids(<<HEADER, fr_result>>) = {fr_result[5]}

C6_RowOfSparsePlace ==
    /\ fr_done
    /\ DOMAIN fr_place = {"id"}
    /\ fr_result[4] = "Unknown Restaurant"
    /\ fr_result[5] = "p1"
    /\ fr_result[2] = "2024-01-08"

====
